---- MODULE Spec2Model ----
(***************************************************************************)
(* The agent builder service of makluganteng/eliza: the agent generator    *)
(* (generateAgent and its two render helpers), the build orchestrator      *)
(* (processAgentCreation, pushToDockerHub), the two ingress modes          *)
(* (startKafkaService / eachMessage, startDevMode) and the process         *)
(* lifecycle (mode dispatch, SIGTERM handler).                             *)
(*                                                                         *)
(* One Node.js process is modelled.  An action is one stretch of code that *)
(* runs between two points where the process waits (an await on an         *)
(* external command or on the broker client); the synchronous file-system  *)
(* calls of generateAgent are separate steps, during which nothing else of *)
(* the process can run.                                                    *)
(*                                                                         *)
(* Text is a sequence of tokens (strings); a file that may be absent is a  *)
(* sequence of length 0 (absent) or 1 (its content), and so is every other *)
(* optional value.                                                         *)
(*                                                                         *)
(* Every file-system call and every external command may fail.  A failed   *)
(* file-system call leaves the file it was writing as it was.  An image    *)
(* is the output directory as docker build found it.  The broker           *)
(* client is the one the code configures: consumer.run with no concurrency *)
(* option hands over one message at a time and waits for the promise of    *)
(* eachMessage before the next.                                            *)
(***************************************************************************)
EXTENDS Naturals, Sequences, FiniteSets, TLC

VARIABLES
    mode,       \* process.env.NODE_ENV: "development" or "production"
    phase,      \* where the process is: boot, connecting, ..., exited
    exitCode,   \* status of process.exit / of the natural exit (read when exited)
    exitCause,  \* which code path ended the process
    runs,       \* one record per delivered message / CLI invocation
    fs,         \* the builds directory: one output directory per agentId
    charFiles,  \* the callers' character files: path -> optional content
    images,     \* the container daemon's tags: image name -> optional build context
    sigPending  \* "pending": SIGTERM arrived while generateAgent was running

vars == <<mode, phase, exitCode, exitCause, runs, fs, charFiles, images, sigPending>>

(***************************************************************************)
(* Bounds                                                                  *)
(***************************************************************************)
MaxMsgs == 2        \* messages the broker delivers in one behaviour
MaxPlugins == 2     \* longest plugins list given to the render helpers
MaxRenders == 2     \* generations in one behaviour of the render specification

(***************************************************************************)
(* Small input sets                                                        *)
(***************************************************************************)
Plugins == {"alpha", "beta", "thirdWeb"}
AgentIds == {"agent1", "agent2"}          \* the output directories under builds/
EventAgentIds == {"agent1"}               \* the agentIds that events carry
\* The agentIds of two process instances: the same one, another one, and one that
\* differs from "agent1" only by a trailing /. segment.
RaceAgentIds == {"agent1", "agent2", "agent1/."}
CharPaths == {"characters/a.json", "characters/missing.json"}
Undefined == "undefined"                 \* the JS value undefined (field absent)
Registries == {Undefined, "", "registry.example.com"}

\* All plugins lists up to MaxPlugins (inputs of the render helpers).
AllPluginLists == UNION {[1..n -> Plugins] : n \in 0..MaxPlugins}

\* What events of the pipeline give the generator: a plugins list and a character
\* path (one that exists, one that does not).
GeneratorInputs ==
    { [plugins |-> <<"alpha">>, character |-> "characters/a.json"],
      [plugins |-> <<"alpha", "beta">>, character |-> "characters/missing.json"] }

AgentCreationEvent(pl, ch, id, reg) ==
    [plugins |-> pl, character |-> ch, agentId |-> id, dockerRegistry |-> reg]

Events == {AgentCreationEvent(g.plugins, g.character, id, reg) :
              g \in GeneratorInputs, id \in EventAgentIds, reg \in Registries}

\* The events that messages carry: each generator input with a registry and
\* without one (the first with the field absent, the second with it empty).
QueueEvents ==
    {e \in Events :
        \/ e.dockerRegistry = "registry.example.com"
        \/ e.dockerRegistry = (IF e.character = "characters/a.json" THEN Undefined ELSE "")}

RenderEvents == {AgentCreationEvent(pl, "characters/a.json", "agent1", Undefined) :
                    pl \in AllPluginLists}

\* JS truthiness of an optional string: undefined and '' are falsy.
Truthy(x) == x # Undefined /\ x # ""

(***************************************************************************)
(* Text helpers                                                            *)
(***************************************************************************)
\* Array.prototype.join: the elements with the separator between neighbours.
RECURSIVE Join(_, _)
Join(elems, sep) ==
    IF Len(elems) = 0 THEN <<>>
    ELSE IF Len(elems) = 1 THEN <<elems[1]>>
    ELSE <<elems[1], sep>> \o Join(Tail(elems), sep)

\* String.prototype.replace with a string pattern: the FIRST occurrence only.
RECURSIVE Replace(_, _, _)
Replace(text, pattern, replacement) ==
    IF text = <<>> THEN <<>>
    ELSE IF Head(text) = pattern THEN replacement \o Tail(text)
    ELSE <<Head(text)>> \o Replace(Tail(text), pattern, replacement)

(***************************************************************************)
(* generateImports / generatePluginInitialization                          *)
(***************************************************************************)
CoreImport == "import { AgentRuntime, CacheManager, elizaLogger } from '@elizaos/core';"

PluginImport(plugin) ==
    "import { " \o plugin \o "Plugin } from '@elizaos/plugin-" \o plugin \o "';"

\* for (const plugin of plugins) imports.push(...)
RECURSIVE ImportsLoop(_, _)
ImportsLoop(imports, plugins) ==
    IF plugins = <<>> THEN imports
    ELSE ImportsLoop(Append(imports, PluginImport(Head(plugins))), Tail(plugins))

\* A plausible slip: unshift instead of push (the plugin imports end up reversed
\* and in front of the core import).
RECURSIVE ImportsLoopUnshift(_, _)
ImportsLoopUnshift(imports, plugins) ==
    IF plugins = <<>> THEN imports
    ELSE ImportsLoopUnshift(<<PluginImport(Head(plugins))>> \o imports, Tail(plugins))

generateImportsUnshift(plugins) == Join(ImportsLoopUnshift(<<CoreImport>>, plugins), "\n")

generateImports(plugins) == Join(ImportsLoop(<<CoreImport>>, plugins), "\n")

InitOpen == "\n    const enabledPlugins = [\n        "
InitSep == ",\n        "
InitClose == "\n    ].filter(Boolean);\n    "

\* plugins.map((p) => `${p}Plugin`)
PluginSymbols(plugins) == [i \in 1..Len(plugins) |-> plugins[i] \o "Plugin"]

generatePluginInitialization(plugins) ==
    <<InitOpen>> \o Join(PluginSymbols(plugins), InitSep) \o <<InitClose>>

(***************************************************************************)
(* The template document and the artifacts generateAgent writes            *)
(***************************************************************************)
ImportsMarker == "/* IMPORTS */"
InitMarker == "/* PLUGIN_INITIALIZATION */"

Template ==
    << "import fs from 'fs'; import { AgentRuntime, ... } from '@elizaos/core';",
       ImportsMarker,
       "const startAgent = async () => { try { ... const token = getTokenForProvider(...);",
       InitMarker,
       "const runtime = new AgentRuntime({ ..., plugins: enabledPlugins, ... }); ... }; startAgent();" >>

\* template.replace('/* IMPORTS */', imports).replace('/* PLUGIN_INITIALIZATION */', pluginInit)
RenderTemplate(template, imports, pluginInit) ==
    Replace(Replace(template, ImportsMarker, imports), InitMarker, pluginInit)

\* The keys of the dependencies object: '@elizaos/core', then one key per plugin in
\* first-insertion order (an object keeps one entry per key).
RECURSIVE DependencyKeys(_, _)
DependencyKeys(acc, plugins) ==
    IF plugins = <<>> THEN acc
    ELSE LET key == "@elizaos/plugin-" \o Head(plugins)
         IN  DependencyKeys(IF \E i \in 1..Len(acc) : acc[i] = key
                            THEN acc ELSE Append(acc, key),
                            Tail(plugins))

\* The segments of a relative path, split at the separator.
PathSegments(p) ==
    CASE p = "agent1/." -> <<"agent1", ".">>
      [] OTHER -> <<p>>

\* path.basename: the last segment, as written.
Basename(p) == PathSegments(p)[Len(PathSegments(p))]

\* The normalisation of path.resolve: a . segment is dropped, a .. segment drops
\* the segment before it.
RECURSIVE Normalize(_, _)
Normalize(done, segs) ==
    IF segs = <<>> THEN done
    ELSE IF Head(segs) = "." THEN Normalize(done, Tail(segs))
    ELSE IF Head(segs) = ".."
         THEN Normalize(IF done = <<>> THEN done ELSE SubSeq(done, 1, Len(done) - 1),
                        Tail(segs))
    ELSE Normalize(Append(done, Head(segs)), Tail(segs))

\* The segments written as one path again.
RECURSIVE PathJoin(_)
PathJoin(segs) ==
    IF Len(segs) = 1 THEN segs[1] ELSE segs[1] \o "/" \o PathJoin(Tail(segs))

\* JSON.stringify(packageTemplate, null, 2)
PackageJson(config) ==
    [name |-> "@elizaos/agent-" \o Basename(config.outputDir),
     version |-> "1.0.0",
     type |-> "module",
     scripts |-> [build |-> "tsc", start |-> "node dist/index.js"],
     dependencies |-> DependencyKeys(<<"@elizaos/core">>, config.plugins)]

Dockerfile ==
    << "FROM eliza:latest as base", "WORKDIR /app/custom-agent", "COPY . .",
       "RUN pnpm install", "RUN pnpm run build", "RUN mkdir -p data",
       "EXPOSE 3000", "CMD [\"pnpm\", \"start\"]" >>

\* An output directory that does not exist.
NoDir == [exists |-> FALSE, index |-> <<>>, character |-> <<>>,
          package |-> <<>>, dockerfile |-> <<>>]

\* The config processAgentCreation hands to generateAgent.
GeneratorConfig(event) ==
    [plugins |-> event.plugins, character |-> event.character,
     outputDir |-> event.agentId]

\* path.resolve(buildsDir, config.outputDir): the directory under builds/ that
\* config.outputDir names, normalised.
OutputDir(config) == PathJoin(Normalize(<<>>, PathSegments(config.outputDir)))

\* const imageName = `custom-agent-${event.agentId}`
ImageName(event) == "custom-agent-" \o event.agentId

ImageNames == {"custom-agent-" \o id : id \in AgentIds \cup RaceAgentIds}

(***************************************************************************)
(* File-system effects of generateAgent, one per fs call                   *)
(***************************************************************************)
\* fs.mkdirSync(outputDir, { recursive: true })
MkDir(dir) == [dir EXCEPT !.exists = TRUE]

\* fs.writeFileSync(path.join(outputDir, 'index.ts'), template)
WriteIndex(dir, text) == [dir EXCEPT !.index = <<text>>]

\* if (fs.existsSync(characterPath)) fs.copyFileSync(characterPath, .../character.json)
CopyCharacter(dir, source) ==
    IF source # <<>> THEN [dir EXCEPT !.character = source] ELSE dir

\* A plausible slip: a package.json that is there already is kept.
WritePackageIfAbsent(dir, config) ==
    IF dir.package # <<>> THEN dir
    ELSE [dir EXCEPT !.package = <<PackageJson(config)>>]

\* fs.writeFileSync(path.join(outputDir, 'package.json'), JSON.stringify(...))
WritePackage(dir, config) == [dir EXCEPT !.package = <<PackageJson(config)>>]

\* fs.writeFileSync(path.join(outputDir, 'Dockerfile'), dockerfile)
WriteDockerfile(dir) == [dir EXCEPT !.dockerfile = <<Dockerfile>>]

(***************************************************************************)
(* Pipeline runs                                                           *)
(***************************************************************************)
GenPcs == {"mkdir", "readTemplate", "writeIndex", "copyChar", "writePkg", "writeDocker"}
ToolchainPcs == {"probe", "baseBuild", "agentBuild", "tag", "push"}

\* A plausible slip: the template read only after the other artifacts are written.
NextGenStepReadLate(pc) ==
    CASE pc = "mkdir" -> "copyChar"
      [] pc = "copyChar" -> "writePkg"
      [] pc = "writePkg" -> "writeDocker"
      [] pc = "writeDocker" -> "readTemplate"
      [] pc = "readTemplate" -> "writeIndex"
      [] pc = "writeIndex" -> "probe"

\* The order of generateAgent's file-system calls; after the last one
\* generateAgent returns and processAgentCreation starts the probe.
NextGenStep(pc) ==
    CASE pc = "mkdir" -> "readTemplate"
      [] pc = "readTemplate" -> "writeIndex"
      [] pc = "writeIndex" -> "copyChar"
      [] pc = "copyChar" -> "writePkg"
      [] pc = "writePkg" -> "writeDocker"
      [] pc = "writeDocker" -> "probe"

\* A run that processAgentCreation has entered with a usable event.
NewRun(value, event) ==
    [value |-> value,            \* message.value (<<>>: none; CLI runs carry <<>>)
     event |-> <<event>>,
     proc |-> 1,                 \* the process instance the run belongs to
     pc |-> "mkdir",
     steps |-> <<"generate">>,   \* generation and the commands invoked, in order
     outcome |-> "pending",      \* pending, success, degraded, threw, dropped
     failedAt |-> "none",        \* the step whose failure ended the run
     before |-> fs[OutputDir(GeneratorConfig(event))],
                                 \* the output directory as the run found it
     imports |-> <<>>,           \* generateAgent's local imports
     pluginInit |-> <<>>,        \* generateAgent's local pluginInit
     template |-> <<>>,          \* generateAgent's local template
     context |-> <<>>,           \* the directory as docker build -t imageName found it
     manualLogged |-> FALSE,     \* 'Docker setup failed...' and the manual steps
     successLogged |-> FALSE]    \* 'Successfully processed agent creation for ...'

\* A message that never reached generateAgent: outcome dropped (JSON.parse threw)
\* or threw (processAgentCreation threw on a value that is no event).
NoRun(value, outcome, at) ==
    [value |-> value, event |-> <<>>, proc |-> 1, pc |-> "done", steps |-> <<>>,
     outcome |-> outcome, failedAt |-> at, before |-> NoDir, imports |-> <<>>,
     pluginInit |-> <<>>, template |-> <<>>, context |-> <<>>,
     manualLogged |-> FALSE, successLogged |-> FALSE]

Settled(run) == run.outcome # "pending"

\* Some run of process p is inside generateAgent, which is synchronous: nothing
\* else of that process runs until it returns or throws.
SyncIn(p) == \E r \in DOMAIN runs : runs[r].proc = p /\ runs[r].pc \in GenPcs

\* The same of the process whose lifecycle is modelled.
InSync == SyncIn(1)

(***************************************************************************)
(* Control flow of processAgentCreation and pushToDockerHub                *)
(***************************************************************************)
\* A plausible slip: testing the registry against undefined only, so that an empty
\* registry string still reaches pushToDockerHub.
ShouldPushIfDefined(event) == event.dockerRegistry # Undefined

\* if (event.dockerRegistry) await pushToDockerHub(imageName, event.dockerRegistry)
ShouldPush(event) == Truthy(event.dockerRegistry)

\* A plausible slip: the agent image built before the base image it starts from.
NextCommandAgentFirst(pc, event) ==
    CASE pc = "probe" -> "agentBuild"
      [] pc = "agentBuild" -> "baseBuild"
      [] pc = "baseBuild" -> IF ShouldPush(event) THEN "tag" ELSE "success"
      [] pc = "tag" -> "push"
      [] pc = "push" -> "success"

\* A plausible slip: the agent build run a second time before the tag.
NextCommandBuildTwice(pc, event) ==
    CASE pc = "probe" -> "baseBuild"
      [] pc = "baseBuild" -> "agentBuild"
      [] pc = "agentBuild" -> IF ShouldPush(event) THEN "tag" ELSE "agentBuild"
      [] pc = "tag" -> "push"
      [] pc = "push" -> "success"

\* What follows a command that succeeded: the next command the run awaits, or
\* "success" when the inner try block is left normally.
NextCommand(pc, event) ==
    CASE pc = "probe" -> "baseBuild"
      [] pc = "baseBuild" -> "agentBuild"
      [] pc = "agentBuild" -> IF ShouldPush(event) THEN "tag" ELSE "success"
      [] pc = "tag" -> "push"
      [] pc = "push" -> "success"

\* A plausible slip: no inner try/catch, every failure reaches the outer catch.
CatchOutcomeRethrowAll(at) == "threw"

\* A plausible slip: generateAgent called inside the inner try block, so that its
\* failures too end in the catch that logs the manual instructions and returns.
CatchOutcomeSwallowAll(at) == "degraded"

\* A plausible slip: the inner catch without its return, so that the success
\* message is logged after the manual instructions too.
LogsSuccessFallThrough(outcome) == outcome \in {"success", "degraded"}

\* Whether the run reaches the success message after the inner try/catch: the
\* catch returns before it, a rethrown error skips it.
LogsSuccess(outcome) == outcome = "success"

\* Whether the run logs the warning and the manual build instructions: the inner
\* catch does.
LogsManual(outcome) == outcome = "degraded"

\* A plausible slip: the inner try block closed after the probe, the builds
\* outside it.
CatchOutcomeProbeOnly(at) == IF at = "probe" THEN "degraded" ELSE "threw"

\* A plausible slip: the inner catch rethrows when the service runs from the CLI.
CatchOutcomeByMode(at) ==
    IF at \in ToolchainPcs /\ mode = "production" THEN "degraded" ELSE "threw"

\* How the run ends when step `at` fails.  A failure inside generateAgent (or on a
\* value that is no event) reaches only the outer catch, which rethrows.  A failure
\* of a command is thrown inside the inner try block (pushToDockerHub's own catch
\* rethrows into it), whose catch logs the manual instructions and returns.
CatchOutcome(at) ==
    IF at \in ToolchainPcs THEN "degraded" ELSE "threw"

(***************************************************************************)
(* Ingress                                                                 *)
(***************************************************************************)
\* A message body: its JSON syntax and, when valid, the document it denotes
\* (<<>>: the JSON value null, which is no event).
EmptyBody == [syntax |-> "empty", doc |-> <<>>]
GarbageBody == [syntax |-> "invalid", doc |-> <<>>]
NullBody == [syntax |-> "valid", doc |-> <<>>]
EventBody(e) == [syntax |-> "valid", doc |-> <<e>>]

Bodies == {EmptyBody, GarbageBody, NullBody} \cup {EventBody(e) : e \in QueueEvents}

\* message.value: <<>> when the message has no value.
MessageValues == {<<>>} \cup {<<b>> : b \in Bodies}

\* message.value?.toString() || ''
ToText(value) == IF value = <<>> THEN EmptyBody ELSE value[1]

\* JSON.parse: throws a SyntaxError on the empty string and on malformed text.
JSONParse(body) ==
    IF body.syntax = "valid" THEN [ok |-> TRUE, value |-> body.doc]
    ELSE [ok |-> FALSE, value |-> <<>>]

\* A plausible slip: eachMessage without its try/catch, so that a thrown error
\* rejects the promise handed back to the broker client.
HandlerStateNoCatch(run) ==
    IF run.outcome = "pending" THEN "pending"
    ELSE IF run.outcome \in {"dropped", "threw"} THEN "rejected"
    ELSE "resolved"

\* A plausible slip: processAgentCreation(event) called without await, so that
\* the handler resolves while the run is still in progress.
HandlerStateNoAwait(run) == "resolved"

\* The state of the promise eachMessage returned for a run: the handler awaits
\* processAgentCreation, and its catch swallows whatever was thrown.
HandlerState(run) ==
    IF run.outcome = "pending" THEN "pending" ELSE "resolved"

\* The broker client hands over the next message once every earlier handler has
\* resolved.
ConsumerReady == \A r \in DOMAIN runs : HandlerState(runs[r]) = "resolved"

\* The --plugins flag as typed: a sequence of characters, of which only the comma
\* and the blank matter here.
RECURSIVE Split(_, _)
Split(chars, cur) ==
    IF chars = <<>> THEN <<cur>>
    ELSE IF Head(chars) = "," THEN <<cur>> \o Split(Tail(chars), <<>>)
    ELSE Split(Tail(chars), Append(cur, Head(chars)))

RECURSIVE TrimStart(_)
TrimStart(seg) ==
    IF seg # <<>> /\ Head(seg) = " " THEN TrimStart(Tail(seg)) ELSE seg

RECURSIVE TrimEnd(_)
TrimEnd(seg) ==
    IF seg # <<>> /\ seg[Len(seg)] = " " THEN TrimEnd(SubSeq(seg, 1, Len(seg) - 1))
    ELSE seg

RECURSIVE Concat(_)
Concat(seg) == IF seg = <<>> THEN "" ELSE Head(seg) \o Concat(Tail(seg))

\* argv.plugins.split(',').map((p) => p.trim())
ParsePlugins(flag) ==
    LET segs == Split(flag, <<>>)
    IN  [i \in 1..Len(segs) |-> Concat(TrimEnd(TrimStart(segs[i])))]

\* The command lines: the flags that give the events of Events.
ArgvInputs ==
    { [plugins |-> <<"alpha">>, character |-> "characters/a.json"],
      [plugins |-> <<"alpha", ",", " ", "beta">>, character |-> "characters/missing.json"] }

Argvs == {[plugins |-> a.plugins, character |-> a.character,
           agentId |-> id, registry |-> reg] :
             a \in ArgvInputs, id \in EventAgentIds, reg \in Registries}

\* const event = { plugins: ..., character: argv.character, agentId: argv.agentId,
\*                 dockerRegistry: argv.registry }
BuildEvent(argv) ==
    AgentCreationEvent(ParsePlugins(argv.plugins), argv.character,
                       argv.agentId, argv.registry)

\* A plausible slip: no catch on startDevMode() that exits with 1.
ExitStatusAlwaysZero(outcome) == 0

\* The exit status once the single run of development mode has ended: the catch on
\* startDevMode() exits with 1; with nothing left to do the process ends with 0.
ExitStatus(outcome) == IF outcome = "threw" THEN 1 ELSE 0

(***************************************************************************)
(* Initial state: the module has been evaluated, the SIGTERM handler is    *)
(* installed and the mode's entry point waits on its first await.          *)
(***************************************************************************)
InitFiles ==
    /\ fs = [id \in AgentIds |-> NoDir]
    /\ charFiles = [p \in CharPaths |->
                       IF p = "characters/a.json" THEN <<"persona a">> ELSE <<>>]
    /\ images = [n \in ImageNames |-> <<>>]

Init ==
    /\ mode \in {"development", "production"}
    /\ phase = IF mode = "development" THEN "parsing" ELSE "connecting"
    /\ exitCode = 0
    /\ exitCause = "none"
    /\ runs = <<>>
    /\ sigPending = "none"
    /\ InitFiles

\* A plausible slip: the handler of eachMessage without its catch, the rejection
\* reaching the catch on startKafkaService().
ProcessAfterRunExitOnThrow(outcome) ==
    IF mode = "development" \/ outcome = "threw"
    THEN /\ phase' = "exited"
         /\ exitCode' = ExitStatus(outcome)
         /\ exitCause' = IF outcome = "threw" THEN "devFailure" ELSE "devCompleted"
    ELSE UNCHANGED <<phase, exitCode, exitCause>>

\* The process-level effect of a run that has ended.
ProcessAfterRun(outcome) ==
    IF mode = "development"
    THEN /\ phase' = "exited"
         /\ exitCode' = ExitStatus(outcome)
         /\ exitCause' = IF outcome = "threw" THEN "devFailure" ELSE "devCompleted"
    ELSE UNCHANGED <<phase, exitCode, exitCause>>

\* Run r, its record now `run`, returns or throws out of processAgentCreation.
Finish(r, run, outcome, at) ==
    /\ runs' = [runs EXCEPT ![r] = [run EXCEPT !.pc = "done", !.outcome = outcome,
                                                !.failedAt = at,
                                                !.manualLogged = LogsManual(outcome),
                                                !.successLogged = LogsSuccess(outcome)]]
    /\ ProcessAfterRun(outcome)

\* Run r goes on to its next step.
Goto(r, run, pc) ==
    /\ runs' = [runs EXCEPT ![r] = [run EXCEPT !.pc = pc]]
    /\ UNCHANGED <<phase, exitCode, exitCause>>

\* Run r goes on to the next file-system call of generateAgent, or to the probe.
Advance(r, run) ==
    LET next == NextGenStep(run.pc)
    IN  Goto(r, IF next = "probe" THEN [run EXCEPT !.steps = Append(@, "probe")] ELSE run,
             next)

\* startKafkaService: consumer.connect(), consumer.subscribe(), consumer.run();
\* a rejection of any of them reaches the catch on startKafkaService().
KafkaStartup ==
    /\ mode = "production"
    /\ phase \in {"connecting", "subscribing", "starting"}
    /\ \E ok \in BOOLEAN :
         IF ok
         THEN /\ phase' = CASE phase = "connecting" -> "subscribing"
                            [] phase = "subscribing" -> "starting"
                            [] phase = "starting" -> "consuming"
              /\ UNCHANGED <<exitCode, exitCause>>
         ELSE /\ phase' = "exited"
              /\ exitCode' = 1
              /\ exitCause' = "startupFailure"
    /\ UNCHANGED <<mode, runs, fs, charFiles, images, sigPending>>

\* eachMessage: parse the body, hand the event to processAgentCreation.
EachMessage ==
    /\ mode = "production"
    /\ phase = "consuming"
    /\ Len(runs) < MaxMsgs
    /\ ~InSync
    /\ ConsumerReady
    /\ \E value \in MessageValues :
         LET parsed == JSONParse(ToText(value))
         IN  runs' = Append(runs,
                 IF ~parsed.ok THEN NoRun(value, "dropped", "parse")
                 ELSE IF parsed.value = <<>> THEN NoRun(value, CatchOutcome("event"), "event")
                 ELSE NewRun(value, parsed.value[1]))
    /\ UNCHANGED <<mode, phase, exitCode, exitCause, fs, charFiles, images, sigPending>>

\* startDevMode: yargs parses the flags (a missing required flag ends the process
\* with status 1), the event is built and handed to processAgentCreation.
StartDevMode ==
    /\ mode = "development"
    /\ phase = "parsing"
    /\ \/ /\ phase' = "exited"
          /\ exitCode' = 1
          /\ exitCause' = "startupFailure"
          /\ UNCHANGED runs
       \/ \E argv \in Argvs :
            /\ runs' = Append(runs, NewRun(<<>>, BuildEvent(argv)))
            /\ phase' = "devRunning"
            /\ UNCHANGED <<exitCode, exitCause>>
    /\ UNCHANGED <<mode, fs, charFiles, images, sigPending>>

(***************************************************************************)
(* generateAgent, one action per file-system call                          *)
(***************************************************************************)
\* The directory of run r under builds/.
DirOf(run) == OutputDir(GeneratorConfig(run.event[1]))

\* if (!fs.existsSync(outputDir)) fs.mkdirSync(outputDir, { recursive: true })
GenMkdir(r) ==
    /\ phase # "exited"
    /\ runs[r].pc = "mkdir"
    /\ LET id == DirOf(runs[r])
       IN  \E ok \in BOOLEAN :
             IF fs[id].exists
             THEN Advance(r, runs[r]) /\ UNCHANGED fs
             ELSE IF ok
             THEN Advance(r, runs[r]) /\ fs' = [fs EXCEPT ![id] = MkDir(@)]
             ELSE Finish(r, runs[r], CatchOutcome("mkdir"), "mkdir") /\ UNCHANGED fs
    /\ UNCHANGED <<mode, charFiles, images, sigPending>>

\* imports, pluginInit, then fs.readFileSync(templatePath, 'utf8'), which throws
\* when the template document is missing.
GenReadTemplate(r) ==
    /\ phase # "exited"
    /\ runs[r].pc = "readTemplate"
    /\ LET config == GeneratorConfig(runs[r].event[1])
           run == [runs[r] EXCEPT !.imports = generateImports(config.plugins),
                                  !.pluginInit = generatePluginInitialization(config.plugins)]
       IN  \E ok \in BOOLEAN :
             IF ok
             THEN Advance(r, [run EXCEPT !.template = <<Template>>])
             ELSE Finish(r, run, CatchOutcome("readTemplate"), "readTemplate")
    /\ UNCHANGED <<mode, fs, charFiles, images, sigPending>>

\* The two replacements, then fs.writeFileSync(outputPath, template)
GenWriteIndex(r) ==
    /\ phase # "exited"
    /\ runs[r].pc = "writeIndex"
    /\ LET id == DirOf(runs[r])
           text == RenderTemplate(runs[r].template[1], runs[r].imports, runs[r].pluginInit)
           run == [runs[r] EXCEPT !.template = <<text>>]
       IN  \E ok \in BOOLEAN :
             IF ok
             THEN Advance(r, run) /\ fs' = [fs EXCEPT ![id] = WriteIndex(@, text)]
             ELSE Finish(r, run, CatchOutcome("writeIndex"), "writeIndex") /\ UNCHANGED fs
    /\ UNCHANGED <<mode, charFiles, images, sigPending>>

\* if (fs.existsSync(characterPath)) fs.copyFileSync(characterPath, .../character.json)
GenCopyChar(r) ==
    /\ phase # "exited"
    /\ runs[r].pc = "copyChar"
    /\ LET id == DirOf(runs[r])
           source == charFiles[runs[r].event[1].character]
       IN  \E ok \in BOOLEAN :
             IF source = <<>> \/ ok
             THEN Advance(r, runs[r])
                  /\ fs' = [fs EXCEPT ![id] = CopyCharacter(@, source)]
             ELSE Finish(r, runs[r], CatchOutcome("copyChar"), "copyChar") /\ UNCHANGED fs
    /\ UNCHANGED <<mode, charFiles, images, sigPending>>

\* fs.writeFileSync(path.join(outputDir, 'package.json'), JSON.stringify(...))
GenWritePkg(r) ==
    /\ phase # "exited"
    /\ runs[r].pc = "writePkg"
    /\ LET id == DirOf(runs[r])
           config == GeneratorConfig(runs[r].event[1])
       IN  \E ok \in BOOLEAN :
             IF ok
             THEN Advance(r, runs[r])
                  /\ fs' = [fs EXCEPT ![id] = WritePackage(@, config)]
             ELSE Finish(r, runs[r], CatchOutcome("writePkg"), "writePkg") /\ UNCHANGED fs
    /\ UNCHANGED <<mode, charFiles, images, sigPending>>

\* fs.writeFileSync(path.join(outputDir, 'Dockerfile'), dockerfile); generateAgent
\* returns and processAgentCreation starts the probe, execAsync('docker info').
GenWriteDocker(r) ==
    /\ phase # "exited"
    /\ runs[r].pc = "writeDocker"
    /\ LET id == DirOf(runs[r])
       IN  \E ok \in BOOLEAN :
             IF ok
             THEN Advance(r, runs[r])
                  /\ fs' = [fs EXCEPT ![id] = WriteDockerfile(@)]
             ELSE Finish(r, runs[r], CatchOutcome("writeDocker"), "writeDocker")
                  /\ UNCHANGED fs
    /\ UNCHANGED <<mode, charFiles, images, sigPending>>

(***************************************************************************)
(* The container toolchain: the command run r awaits ends                  *)
(***************************************************************************)
\* The run as it starts command `next`: cd ${outputDir} && docker build -t
\* imageName . takes the output directory as it is then.
StartCommand(run, next) ==
    [run EXCEPT !.steps = Append(@, next),
                !.context = IF next = "agentBuild" THEN <<fs[DirOf(run)]>> ELSE @]

\* The daemon's tags once the command of `run` has succeeded: docker build -t
\* imageName moves the tag to the image just built.
TagsAfter(run) ==
    IF run.pc = "agentBuild"
    THEN [images EXCEPT ![ImageName(run.event[1])] = run.context]
    ELSE images

\* A SIGTERM that arrived during generateAgent was queued before the command
\* was started: its handler runs before the command's callback.
CommandDone(r) ==
    /\ phase # "exited"
    /\ sigPending = "none"
    /\ ~SyncIn(runs[r].proc)
    /\ runs[r].pc \in ToolchainPcs
    /\ \E ok \in BOOLEAN :
         LET next == NextCommand(runs[r].pc, runs[r].event[1])
         IN  IF ~ok
             THEN Finish(r, runs[r], CatchOutcome(runs[r].pc), runs[r].pc)
                  /\ UNCHANGED images
             ELSE /\ images' = TagsAfter(runs[r])
                  /\ IF next = "success"
                     THEN Finish(r, runs[r], "success", "none")
                     ELSE Goto(r, StartCommand(runs[r], next), next)
    /\ UNCHANGED <<mode, fs, charFiles, sigPending>>

\* SIGTERM arrives while generateAgent is running, at any of its calls: the
\* handler has to wait for the event loop, the generation goes on.
SigtermReceived ==
    /\ phase # "exited"
    /\ InSync
    /\ sigPending = "none"
    /\ sigPending' = "pending"
    /\ UNCHANGED <<mode, phase, exitCode, exitCause, runs, fs, charFiles, images>>

\* A plausible slip: the handler exits with a failure status.
SigtermExitOne ==
    /\ phase # "exited"
    /\ ~InSync
    /\ phase' = "exited"
    /\ exitCode' = 1
    /\ exitCause' = "sigterm"
    /\ UNCHANGED <<mode, runs, fs, charFiles, images, sigPending>>

\* process.on('SIGTERM', ...): process.exit(0), for a signal that was pending or
\* one that arrives now.  The handler runs between two turns of the event loop,
\* never inside the synchronous generateAgent.
Sigterm ==
    /\ phase # "exited"
    /\ ~InSync
    /\ phase' = "exited"
    /\ exitCode' = 0
    /\ exitCause' = "sigterm"
    /\ UNCHANGED <<mode, runs, fs, charFiles, images, sigPending>>

GenerateAgent(r) ==
    \/ GenMkdir(r)
    \/ GenReadTemplate(r)
    \/ GenWriteIndex(r)
    \/ GenCopyChar(r)
    \/ GenWritePkg(r)
    \/ GenWriteDocker(r)

Next ==
    \/ KafkaStartup
    \/ EachMessage
    \/ StartDevMode
    \/ \E r \in DOMAIN runs : GenerateAgent(r)
    \/ \E r \in DOMAIN runs : CommandDone(r)
    \/ SigtermReceived
    \/ Sigterm

Spec == Init /\ [][Next]_vars

(***************************************************************************)
(* The render helpers on every plugins list: generateAgent alone, entered  *)
(* with an event whose plugins list is any list up to MaxPlugins.          *)
(***************************************************************************)
InitRender ==
    /\ mode = "production"
    /\ phase = "consuming"
    /\ exitCode = 0
    /\ exitCause = "none"
    /\ sigPending = "none"
    /\ InitFiles
    /\ runs \in {<<NewRun(<<EventBody(e)>>, e)>> : e \in RenderEvents}

\* The same event is handed to generateAgent again once the last generation has
\* ended.
RenderAgain ==
    /\ Len(runs) < MaxRenders
    /\ \A r \in DOMAIN runs : runs[r].pc \notin GenPcs
    /\ LET e == runs[1].event[1]
       IN  runs' = Append(runs, NewRun(<<EventBody(e)>>, e))
    /\ UNCHANGED <<mode, phase, exitCode, exitCause, fs, charFiles, images, sigPending>>

NextRender ==
    \/ \E r \in DOMAIN runs : GenerateAgent(r)
    \/ RenderAgain

SpecRender == InitRender /\ [][NextRender]_vars

(***************************************************************************)
(* Two process instances, each running the pipeline once on its own event. *)
(* They share the builds directory and the container daemon; every         *)
(* file-system call and every command of one may fall between two of the   *)
(* other.                                                                  *)
(***************************************************************************)
RaceEvents(ids) == {AgentCreationEvent(g.plugins, g.character, id, Undefined) :
                       g \in GeneratorInputs, id \in ids}

\* The run of process instance p on event e.
RunOf(p, e) == [NewRun(<<EventBody(e)>>, e) EXCEPT !.proc = p]

InitRace ==
    /\ mode = "production"
    /\ phase = "consuming"
    /\ exitCode = 0
    /\ exitCause = "none"
    /\ sigPending = "none"
    /\ InitFiles
    /\ runs \in {<<RunOf(1, e1), RunOf(2, e2)>> :
                    e1 \in RaceEvents({"agent1"}), e2 \in RaceEvents(RaceAgentIds)}

NextRace ==
    \/ \E r \in DOMAIN runs : GenerateAgent(r)
    \/ \E r \in DOMAIN runs : CommandDone(r)

SpecRace == InitRace /\ [][NextRace]_vars

(***************************************************************************)
(* Vocabulary of the properties                                            *)
(***************************************************************************)
\* The message body is no valid JSON (an empty or missing body included).
Malformed(value) == value = <<>> \/ value[1].syntax # "valid"

\* The message body is the JSON document of an event.
WellFormed(value) == value # <<>> /\ value[1].syntax = "valid" /\ value[1].doc # <<>>

\* The run was handed to the pipeline: generateAgent was entered.
Dispatched(run) == run.event # <<>> /\ run.steps # <<>> /\ run.steps[1] = "generate"

\* generateAgent returned for the run (the probe was started).
Generated(run) == Len(run.steps) >= 2

\* The commands of the toolchain the run has invoked.
Invoked(run) == {run.steps[i] : i \in 1..Len(run.steps)} \ {"generate"}

\* What generating event e alone leaves in a directory that did not exist.
FreshOutput(e) ==
    [exists |-> TRUE,
     index |-> <<RenderTemplate(Template, generateImports(e.plugins),
                                generatePluginInitialization(e.plugins))>>,
     character |-> charFiles[e.character],
     package |-> <<PackageJson(GeneratorConfig(e))>>,
     dockerfile |-> <<Dockerfile>>]

\* The run is the last one handed to the pipeline: no later run has touched fs.
Latest(r) == r = Len(runs)

\* In queue mode the consumer has not been ended by anything but the signal.
ConsumerAlive == phase = "exited" => exitCause = "sigterm"

(***************************************************************************)
(* C1                                                                      *)
(***************************************************************************)
\* C1 (as claimed): with a registry specified and the probe and both builds
\* succeeded, a failure of the tag or of the push command makes
\* processAgentCreation throw.
C1_TagPushFailureThrows ==
    \A r \in DOMAIN runs :
        runs[r].failedAt \in {"tag", "push"} => runs[r].outcome = "threw"

(***************************************************************************)
(* C2                                                                      *)
(***************************************************************************)
\* C2: when generation succeeded and the probe fails, processAgentCreation returns
\* normally, the probe is the only command invoked, and the output directory holds
\* every artifact the generator wrote for the event.
C2_ProbeFailureDegrades ==
    \A r \in DOMAIN runs :
        runs[r].failedAt = "probe" =>
            LET e == runs[r].event[1]
                dir == fs[e.agentId]
            IN  /\ runs[r].outcome = "degraded"
                /\ Invoked(runs[r]) = {"probe"}
                /\ mode = "development" => phase = "exited" /\ exitCode = 0
                /\ Latest(r) =>
                     /\ dir.exists
                     /\ dir.index = FreshOutput(e).index
                     /\ dir.package = FreshOutput(e).package
                     /\ dir.dockerfile = FreshOutput(e).dockerfile
                     /\ charFiles[e.character] # <<>> =>
                            dir.character = charFiles[e.character]

\* C2 witness: a run whose probe failed has returned, its character file copied.
C2_Witness ==
    \E r \in DOMAIN runs :
        /\ runs[r].failedAt = "probe"
        /\ runs[r].pc = "done"
        /\ Latest(r)
        /\ fs[runs[r].event[1].agentId].character # <<>>

(***************************************************************************)
(* C3                                                                      *)
(***************************************************************************)
\* C3: a run whose event has no dockerRegistry (absent or empty) never invokes
\* the tag or the push command, and never ends on a failure of either.
C3_NoRegistryNoPush ==
    \A r \in DOMAIN runs :
        (runs[r].event # <<>> /\ runs[r].event[1].dockerRegistry \in {Undefined, ""}) =>
            /\ Invoked(runs[r]) \cap {"tag", "push"} = {}
            /\ runs[r].failedAt \notin {"tag", "push"}
            /\ (Settled(runs[r]) /\ runs[r].failedAt = "none") =>
                   /\ runs[r].outcome = "success"
                   /\ runs[r].steps = <<"generate", "probe", "baseBuild", "agentBuild">>

\* C3 witness: a run with an empty registry string went through both builds and
\* ended in success.
C3_Witness ==
    \E r \in DOMAIN runs :
        /\ runs[r].event # <<>>
        /\ runs[r].event[1].dockerRegistry = ""
        /\ runs[r].outcome = "success"
        /\ runs[r].steps = <<"generate", "probe", "baseBuild", "agentBuild">>

(***************************************************************************)
(* C4                                                                      *)
(***************************************************************************)
\* C4: in queue mode a message whose body is no valid JSON starts no generation
\* and no command, leaves the consumer running with its handler resolved, and
\* every well-formed message delivered after it is handed to the pipeline.
C4_MalformedDropped ==
    mode = "production" =>
        \A r \in DOMAIN runs :
            Malformed(runs[r].value) =>
                /\ runs[r].outcome = "dropped"
                /\ runs[r].event = <<>>
                /\ runs[r].steps = <<>>
                /\ HandlerState(runs[r]) = "resolved"
                /\ ConsumerAlive
                /\ \A q \in DOMAIN runs :
                       (q > r /\ WellFormed(runs[q].value)) =>
                           /\ Dispatched(runs[q])
                           /\ runs[q].event[1] = runs[q].value[1].doc[1]

\* C4 witness: a well-formed message delivered after a malformed one has been
\* generated.
C4_Witness ==
    \E r, q \in DOMAIN runs :
        /\ r < q
        /\ Malformed(runs[r].value)
        /\ WellFormed(runs[q].value)
        /\ Generated(runs[q])

(***************************************************************************)
(* C5                                                                      *)
(***************************************************************************)
\* C5: a run whose generation failed is aborted with no command invoked; in queue
\* mode the consumer stays alive, its handler resolved, and later well-formed
\* messages are handed to the pipeline; in interactive mode the process has
\* exited with a non-zero status.
C5_GenerationFailureAborts ==
    \A r \in DOMAIN runs :
        runs[r].failedAt \in GenPcs =>
            /\ runs[r].outcome = "threw"
            /\ runs[r].pc = "done"
            /\ Invoked(runs[r]) = {}
            /\ mode = "production" =>
                   /\ HandlerState(runs[r]) = "resolved"
                   /\ ConsumerAlive
                   /\ \A q \in DOMAIN runs :
                          (q > r /\ WellFormed(runs[q].value)) => Dispatched(runs[q])
            /\ mode = "development" => phase = "exited" /\ exitCode # 0

\* C5 witness: in queue mode a message delivered after a failed generation has
\* been generated.
C5_Witness ==
    \E r, q \in DOMAIN runs :
        /\ mode = "production"
        /\ r < q
        /\ runs[r].failedAt \in GenPcs
        /\ Generated(runs[q])

(***************************************************************************)
(* C6                                                                      *)
(***************************************************************************)
\* C6: in interactive mode at most one event is ever handed to the pipeline, and
\* exactly one once the flags are parsed; the process ends with status 0 when the
\* run returned, and with status 1 when the run threw or the startup failed.
C6_InteractiveOnce ==
    mode = "development" =>
        /\ Len(runs) <= 1
        /\ phase = "devRunning" => Len(runs) = 1
        /\ \A r \in DOMAIN runs :
               /\ Dispatched(runs[r])
               /\ runs[r].event[1] \in Events
               /\ Cardinality({i \in 1..Len(runs[r].steps) :
                                   runs[r].steps[i] = "generate"}) = 1
               /\ runs[r].outcome \in {"success", "degraded"} =>
                      phase = "exited" /\ exitCode = 0
               /\ runs[r].outcome = "threw" => phase = "exited" /\ exitCode = 1
        /\ exitCause = "startupFailure" => phase = "exited" /\ exitCode = 1 /\ runs = <<>>
        /\ exitCause = "devCompleted" =>
               exitCode = 0 /\ Len(runs) = 1 /\ runs[1].outcome \in {"success", "degraded"}
        /\ exitCause = "devFailure" =>
               exitCode = 1 /\ Len(runs) = 1 /\ runs[1].outcome = "threw"

\* C6 witness: the single run of interactive mode threw and the process exited
\* with status 1.
C6_Witness ==
    /\ mode = "development"
    /\ phase = "exited"
    /\ Len(runs) = 1
    /\ runs[1].outcome = "threw"
    /\ exitCode = 1

(***************************************************************************)
(* C7                                                                      *)
(***************************************************************************)
\* C7: in queue mode every run delivered before another one has ended (returned,
\* thrown or been dropped) before the later run exists: at most the last run is
\* in progress.
C7_RunsDoNotOverlap ==
    mode = "production" =>
        \A r, q \in DOMAIN runs :
            r < q => Settled(runs[r]) /\ runs[r].pc = "done"

\* C7 witness: a second run is waiting on a command after a first run went
\* through generation and commands.
C7_Witness ==
    /\ mode = "production"
    /\ Len(runs) >= 2
    /\ Len(runs[1].steps) >= 3
    /\ runs[2].pc \in ToolchainPcs

(***************************************************************************)
(* C8                                                                      *)
(***************************************************************************)
\* C8 (as claimed): after a successful generation the output directory holds
\* index.ts, package.json and Dockerfile, and holds character.json if and only
\* if the event's character path exists.
C8_ArtifactsExactly ==
    \A r \in DOMAIN runs :
        (Generated(runs[r]) /\ Latest(r)) =>
            LET e == runs[r].event[1]
                dir == fs[e.agentId]
            IN  /\ dir.exists
                /\ dir.index # <<>>
                /\ dir.package # <<>>
                /\ dir.dockerfile # <<>>
                /\ dir.character # <<>> <=> charFiles[e.character] # <<>>

(***************************************************************************)
(* C9                                                                      *)
(***************************************************************************)
\* C9 (as claimed): after generating e1 and then e2 with the same agentId, the
\* output directory equals what generating e2 alone into a fresh directory
\* produces.
C9_RegenerationLeavesNothingStale ==
    \A r, q \in DOMAIN runs :
        (/\ r < q
         /\ Latest(q)
         /\ Generated(runs[r])
         /\ Generated(runs[q])
         /\ runs[r].event[1].agentId = runs[q].event[1].agentId) =>
            fs[runs[q].event[1].agentId] = FreshOutput(runs[q].event[1])

(***************************************************************************)
(* C10                                                                     *)
(***************************************************************************)
\* The tokens of a text other than the separator.
Elements(text, sep) == SelectSeq(text, LAMBDA t : t # sep)

\* C10: for every plugins list the import block is the core import followed by
\* one import per element in list order, the initialization expression
\* enumerates <p>Plugin for each element p in list order, both blocks stand in
\* the written index.ts at the template's markers, and rendering the same list
\* again yields the same text.
C10_RenderInListOrder ==
    \A r \in DOMAIN runs :
        runs[r].imports # <<>> =>
            LET pl == runs[r].event[1].plugins
                lines == Elements(runs[r].imports, "\n")
                init == runs[r].pluginInit
                listed == Elements(SubSeq(init, 2, Len(init) - 1), InitSep)
            IN  /\ Len(lines) = 1 + Len(pl)
                /\ Len(runs[r].imports) = 2 * Len(pl) + 1
                /\ lines[1] = CoreImport
                /\ \A i \in 1..Len(pl) :
                       lines[i + 1] = "import { " \o pl[i] \o "Plugin } from '@elizaos/plugin-"
                                          \o pl[i] \o "';"
                /\ init[1] = InitOpen /\ init[Len(init)] = InitClose
                /\ Len(listed) = Len(pl)
                /\ \A i \in 1..Len(pl) : listed[i] = pl[i] \o "Plugin"
                /\ pl = <<"alpha", "beta">> => listed = <<"alphaPlugin", "betaPlugin">>
                /\ (runs[r].pc \notin {"readTemplate", "writeIndex"} /\ runs[r].template # <<>>) =>
                       runs[r].template[1] =
                           <<Template[1]>> \o runs[r].imports \o <<Template[3]>>
                               \o init \o <<Template[5]>>
                /\ \A q \in DOMAIN runs :
                       (runs[q].imports # <<>> /\ runs[q].event[1].plugins = pl) =>
                           /\ runs[q].imports = runs[r].imports
                           /\ runs[q].pluginInit = init

\* C10 witness: the list <<alpha, beta>> was rendered twice and index.ts written.
C10_Witness ==
    /\ Len(runs) = 2
    /\ runs[1].event[1].plugins = <<"alpha", "beta">>
    /\ runs[2].pc = "probe"
    /\ runs[1].pc = "probe"
    /\ fs["agent1"].index = <<runs[2].template[1]>>

(***************************************************************************)
(* C11                                                                     *)
(***************************************************************************)
IsPrefix(s, t) == Len(s) <= Len(t) /\ s = SubSeq(t, 1, Len(s))

\* The steps of a run of event e in which nothing fails.
FullSteps(e) ==
    <<"generate", "probe", "baseBuild", "agentBuild">>
        \o (IF Truthy(e.dockerRegistry) THEN <<"tag", "push">> ELSE <<>>)

\* The steps of a run of event e that ended at step `at` ("none": nowhere).
StepsUpTo(e, at) ==
    IF at = "none" THEN FullSteps(e)
    ELSE IF at \in GenPcs THEN <<"generate">>
    ELSE LET i == CHOOSE i \in 1..Len(FullSteps(e)) : FullSteps(e)[i] = at
         IN  SubSeq(FullSteps(e), 1, i)

\* How a run that ended at step `at` leaves processAgentCreation.
ReturnOrThrow(at) ==
    IF at = "none" THEN "success" ELSE IF at \in ToolchainPcs THEN "degraded" ELSE "threw"

\* C11: what a run does is a function of its event and of the outcomes of the
\* file-system calls and commands alone: whichever mode handed the event to the
\* pipeline, a run that has ended performed the steps up to the first failure
\* and returned or threw accordingly, and a run still going has performed a
\* prefix of the steps of its event.
C11_ModeIndependent ==
    \A r \in DOMAIN runs :
        Dispatched(runs[r]) =>
            LET e == runs[r].event[1]
            IN  IF Settled(runs[r])
                THEN /\ runs[r].steps = StepsUpTo(e, runs[r].failedAt)
                     /\ runs[r].outcome = ReturnOrThrow(runs[r].failedAt)
                ELSE IsPrefix(runs[r].steps, FullSteps(e))

\* C11 witness: a run started from the CLI took the degraded path at the agent
\* build, as a run started from the queue does.
C11_Witness ==
    /\ mode = "development"
    /\ Len(runs) = 1
    /\ runs[1].failedAt = "agentBuild"
    /\ runs[1].outcome = "degraded"
    /\ runs[1].steps = <<"generate", "probe", "baseBuild", "agentBuild">>

(***************************************************************************)
(* C12                                                                     *)
(***************************************************************************)
StepOrder == <<"generate", "probe", "baseBuild", "agentBuild", "tag", "push">>

\* C12: the steps a run has started are an initial part of generation, probe,
\* base build, agent build, tag, push; the one step in progress is the last one
\* started; and a step that failed is the last one the run started.
C12_StepsInOrder ==
    \A r \in DOMAIN runs :
        Dispatched(runs[r]) =>
            LET steps == runs[r].steps
            IN  /\ IsPrefix(steps, StepOrder)
                /\ runs[r].pc \in GenPcs => steps = <<"generate">>
                /\ runs[r].pc \in ToolchainPcs => steps[Len(steps)] = runs[r].pc
                /\ runs[r].failedAt \in ToolchainPcs => steps[Len(steps)] = runs[r].failedAt
                /\ runs[r].failedAt \in GenPcs => steps = <<"generate">>

\* C12 witness: a run went through all six steps and the push has ended.
C12_Witness ==
    \E r \in DOMAIN runs :
        /\ runs[r].steps = StepOrder
        /\ runs[r].outcome = "success"

(***************************************************************************)
(* C13                                                                     *)
(***************************************************************************)
\* C13: no run invokes generation or a command twice, and the handler of a
\* message never rejects, whatever became of the message, so that the queue
\* client has no failure to answer with a redelivery.
C13_NothingRetried ==
    \A r \in DOMAIN runs :
        /\ \A i, j \in 1..Len(runs[r].steps) :
               runs[r].steps[i] = runs[r].steps[j] => i = j
        /\ HandlerState(runs[r]) \in {"pending", "resolved"}

\* C13 witness: a message failed in processing at the base build, a later
\* message was malformed; each was handled once and the consumer goes on.
C13_Witness ==
    /\ mode = "production"
    /\ phase = "consuming"
    /\ Len(runs) = 2
    /\ runs[1].failedAt = "baseBuild"
    /\ runs[1].steps = <<"generate", "probe", "baseBuild">>
    /\ runs[2].outcome = "dropped"

(***************************************************************************)
(* C14                                                                     *)
(***************************************************************************)
\* C14: in queue mode the process has exited only by the signal, with status 0,
\* or by a failure of connect, subscribe or run, with status 1 and before any
\* message was handled.
C14_QueueModeExits ==
    (mode = "production" /\ phase = "exited") =>
        \/ exitCause = "sigterm" /\ exitCode = 0
        \/ exitCause = "startupFailure" /\ exitCode = 1 /\ runs = <<>>

\* C14 witness: a message was malformed, the processing of another threw in
\* generation, and the consumer is still running.
C14_Witness ==
    /\ mode = "production"
    /\ phase = "consuming"
    /\ Len(runs) = 2
    /\ runs[1].outcome = "dropped"
    /\ runs[2].outcome = "threw"
    /\ runs[2].failedAt = "writePkg"

C18_BuildFailureDegrades ==
    \A r \in DOMAIN runs :
        runs[r].failedAt \in {"probe", "baseBuild", "agentBuild"} =>
            /\ runs[r].outcome = "degraded"
            /\ runs[r].steps = StepsUpTo(runs[r].event[1], runs[r].failedAt)
            /\ Invoked(runs[r]) \cap {"tag", "push"} = {}
            /\ runs[r].failedAt = "baseBuild" => "agentBuild" \notin Invoked(runs[r])
            /\ runs[r].manualLogged
            /\ ~runs[r].successLogged
            /\ mode = "development" => phase = "exited" /\ exitCode = 0

\* C18 witness: with a registry specified the base build failed after the probe
\* had succeeded, and the manual instructions were logged.
C18_Witness ==
    \E r \in DOMAIN runs :
        /\ runs[r].failedAt = "baseBuild"
        /\ Truthy(runs[r].event[1].dockerRegistry)
        /\ runs[r].steps = <<"generate", "probe", "baseBuild">>
        /\ runs[r].manualLogged

(***************************************************************************)
(* C19                                                                     *)
(***************************************************************************)
\* C19: the success message of a run is logged only when the run has performed
\* every step of its event and none failed; a run that ended degraded, threw or
\* was dropped has not logged it.
C19_SuccessLoggedOnlyOnSuccess ==
    \A r \in DOMAIN runs :
        /\ runs[r].successLogged =>
               /\ Dispatched(runs[r])
               /\ runs[r].failedAt = "none"
               /\ runs[r].outcome = "success"
               /\ runs[r].steps = FullSteps(runs[r].event[1])
        /\ runs[r].outcome \in {"degraded", "threw", "dropped"} => ~runs[r].successLogged

\* C19 witness: one run with a registry logged the success message after the
\* push, another whose push failed did not.
C19_Witness ==
    /\ Len(runs) = 2
    /\ runs[1].successLogged
    /\ runs[1].steps = StepOrder
    /\ runs[2].failedAt = "push"
    /\ ~runs[2].successLogged

(***************************************************************************)
(* C20                                                                     *)
(***************************************************************************)
\* The four artifact files of a directory.
Artifacts(dir) == <<dir.index, dir.character, dir.package, dir.dockerfile>>

\* C20: a run whose read of the template failed threw after generation alone,
\* and as long as no later run has written, the four artifact files of its
\* output directory are what they were when the run began; the directory
\* exists.
C20_MissingTemplateWritesNothing ==
    \A r \in DOMAIN runs :
        runs[r].failedAt = "readTemplate" =>
            /\ runs[r].outcome = "threw"
            /\ runs[r].steps = <<"generate">>
            /\ Latest(r) =>
                   /\ Artifacts(fs[DirOf(runs[r])]) = Artifacts(runs[r].before)
                   /\ fs[DirOf(runs[r])].exists

\* C20 witness: the read failed in a run that had created its directory, which
\* holds no file.
C20_Witness ==
    \E r \in DOMAIN runs :
        /\ runs[r].failedAt = "readTemplate"
        /\ Latest(r)
        /\ ~runs[r].before.exists
        /\ fs[DirOf(runs[r])] = [NoDir EXCEPT !.exists = TRUE]

(***************************************************************************)
(* C16                                                                     *)
(***************************************************************************)
\* The run that takes the step.
Steps(r) == runs'[r] # runs[r]

\* C16: whatever the other process instance has written or tagged, a write of a
\* run that succeeds leaves its file with that run's content, and an agent
\* build that succeeds leaves the image name on the directory as that build
\* found it: the last writer of each file and of each tag wins.
C16_LastWriterWins ==
    [][\A r \in DOMAIN runs :
          Steps(r) =>
              LET e == runs[r].event[1]
                  d == DirOf(runs[r])
                  from == runs[r].pc
                  to == runs'[r].pc
              IN  /\ (from = "writeIndex" /\ to = "copyChar") =>
                         fs'[d].index = FreshOutput(e).index
                  /\ (from = "copyChar" /\ to = "writePkg" /\ charFiles[e.character] # <<>>) =>
                         fs'[d].character = charFiles[e.character]
                  /\ (from = "writePkg" /\ to = "writeDocker") =>
                         fs'[d].package = FreshOutput(e).package
                  /\ (from = "writeDocker" /\ to = "probe") =>
                         fs'[d].dockerfile = <<Dockerfile>>
                  /\ (from = "agentBuild" /\ runs'[r].outcome = "success") =>
                         /\ images'[ImageName(e)] = runs[r].context
                         /\ runs[r].context # <<>>]_vars

\* C16 witness: two process instances ran events with the same agentId and
\* different plugins lists, nothing failed; the directory holds the index.ts of
\* the first and the package.json of the second, and the image named after the
\* agentId was built from that directory.
C16_Witness ==
    /\ Len(runs) = 2
    /\ runs[1].proc # runs[2].proc
    /\ runs[1].event[1].agentId = runs[2].event[1].agentId
    /\ runs[1].event[1].plugins # runs[2].event[1].plugins
    /\ runs[1].outcome = "success"
    /\ runs[2].outcome = "success"
    /\ LET dir == fs[DirOf(runs[1])]
       IN  /\ dir.index = FreshOutput(runs[1].event[1]).index
           /\ dir.package = FreshOutput(runs[2].event[1]).package
           /\ dir # FreshOutput(runs[1].event[1])
           /\ dir # FreshOutput(runs[2].event[1])
           /\ images[ImageName(runs[1].event[1])] = <<dir>>

(***************************************************************************)
(* C17                                                                     *)
(***************************************************************************)
\* The output directory of the events that carry agentId id.
DirOfAgent(id) == OutputDir([outputDir |-> id])

====
